---- MODULE Spec2Model ----
(***************************************************************************)
(* below/view/src/system_view.rs: the system summary view of the below    *)
(* dashboard.  new() builds a vertical list of five text rows from the    *)
(* current model snapshot; refresh() finds the list registered under the  *)
(* name "system_view" and replaces its content.                           *)
(*                                                                         *)
(* Text is a sequence of one-character strings.  A StyledString is the    *)
(* sequence of the spans appended to it, each span a text.                *)
(***************************************************************************)
EXTENDS Integers, Sequences, FiniteSets, TLC

\* ------------------------------------------------------------------ bounds
\* Number of modifications the polling side makes to the snapshot.
MaxWrites == 2
\* Number of distinct samples the polling side can store in a field.
MaxSample == 1

\* --------------------------------------------------------------- constants
ROW_NAME_WIDTH == 15
ROW_FIELD_NAME_WIDTH == 9
ROW_FIELD_WIDTH == 17

\* -------------------------------------------------------------------- text
\* The characters the model uses, in ascending byte order (String's Ord).
Ascii ==
  << " ", "%", "/", "0", "1", "2", "3", "4", "5", "6", "7", "8", "9", "?",
     "A", "B", "C", "F", "I", "M", "O", "P", "S", "T", "U", "V",
     "a", "b", "c", "d", "e", "f", "g", "h", "i", "l", "m", "n", "o", "p",
     "r", "s", "t", "u", "v", "w", "y" >>

Code(c) == CHOOSE i \in 1..Len(Ascii) : Ascii[i] = c

\* a < b for two Strings: byte-wise lexicographic, a proper prefix first.
RECURSIVE StrLess(_, _)
StrLess(a, b) ==
  IF b = <<>> THEN FALSE
  ELSE IF a = <<>> THEN TRUE
  ELSE IF Code(Head(a)) # Code(Head(b)) THEN Code(Head(a)) < Code(Head(b))
  ELSE StrLess(Tail(a), Tail(b))

Spaces(n) == [i \in 1..n |-> " "]

\* base_render::get_fixed_width: the text cut or padded to exactly width.
get_fixed_width(val, width) ==
  IF Len(val) >= width THEN SubSeq(val, 1, width)
  ELSE val \o Spaces(width - Len(val))

Digit(d) == Ascii[Code("0") + d]

RECURSIVE Decimal(_)
Decimal(n) == IF n < 10 THEN <<Digit(n)>> ELSE Decimal(n \div 10) \o <<Digit(n % 10)>>

\* Printed width of a StyledString: the sum of the widths of its spans.
RECURSIVE StyledWidth(_)
StyledWidth(row) == IF row = <<>> THEN 0 ELSE Len(Head(row)) + StyledWidth(Tail(row))

\* ------------------------------------------------------- field identifiers
CpuFieldIds == << <<"Cpu", "UsagePct">>, <<"Cpu", "UserPct">>, <<"Cpu", "SystemPct">> >>
MemFieldIds == << <<"Mem", "Total">>, <<"Mem", "Free">>, <<"Mem", "Anon">>, <<"Mem", "File">> >>
VmFieldIds ==
  << <<"Vm", "PgpginPerSec">>, <<"Vm", "PgpgoutPerSec">>,
     <<"Vm", "PswpinPerSec">>, <<"Vm", "PswpoutPerSec">> >>
DiskTotalBytesPerSec == <<"Disk", "DiskTotalBytesPerSec">>
ThroughputPerSec == <<"Net", "ThroughputPerSec">>

\* Queriable: the default RenderConfig of a field (title, width, unit).
DefaultConfig(field_id) ==
  CASE field_id = <<"Cpu", "UsagePct">>      -> [title |-> <<"U","s","a","g","e">>, width |-> 11, suffix |-> <<"%">>]
    [] field_id = <<"Cpu", "UserPct">>       -> [title |-> <<"U","s","e","r">>, width |-> 11, suffix |-> <<"%">>]
    [] field_id = <<"Cpu", "SystemPct">>     -> [title |-> <<"S","y","s","t","e","m">>, width |-> 11, suffix |-> <<"%">>]
    [] field_id = <<"Mem", "Total">>         -> [title |-> <<"T","o","t","a","l">>, width |-> 11, suffix |-> <<" ","B">>]
    [] field_id = <<"Mem", "Free">>          -> [title |-> <<"F","r","e","e">>, width |-> 11, suffix |-> <<" ","B">>]
    [] field_id = <<"Mem", "Anon">>          -> [title |-> <<"A","n","o","n">>, width |-> 11, suffix |-> <<" ","B">>]
    [] field_id = <<"Mem", "File">>          -> [title |-> <<"F","i","l","e">>, width |-> 11, suffix |-> <<" ","B">>]
    [] field_id = <<"Vm", "PgpginPerSec">>   -> [title |-> <<"P","a","g","e"," ","I","n">>, width |-> 11, suffix |-> <<"/","s">>]
    [] field_id = <<"Vm", "PgpgoutPerSec">>  -> [title |-> <<"P","a","g","e"," ","O","u","t">>, width |-> 11, suffix |-> <<"/","s">>]
    [] field_id = <<"Vm", "PswpinPerSec">>   -> [title |-> <<"S","w","a","p"," ","I","n">>, width |-> 11, suffix |-> <<"/","s">>]
    [] field_id = <<"Vm", "PswpoutPerSec">>  -> [title |-> <<"S","w","a","p"," ","O","u","t">>, width |-> 11, suffix |-> <<"/","s">>]
    [] field_id = DiskTotalBytesPerSec       -> [title |-> <<"T","o","t","a","l">>, width |-> 11, suffix |-> <<" ","B","/","s">>]
    [] field_id = ThroughputPerSec           -> [title |-> <<"T","h","r","o","u","g","h","p","u","t">>, width |-> 11, suffix |-> <<" ","B","/","s">>]

\* Queriable::query: the value a model holds for a field; an unset field
\* is the empty option.
Query(model, field_id) ==
  IF field_id[1] \in {"Cpu", "Mem", "Vm"} THEN model[field_id[1]][field_id[2]]
  ELSE model[field_id[2]]

\* ViewItem::from_default
from_default(field_id) == [field_id |-> field_id, config |-> DefaultConfig(field_id)]

\* rc!(width(w)): a RenderConfig override that sets the width only.
WidthOverride(w) == [width |-> w]

\* ViewItem::update: a new item with the override merged onto the config.
ItemUpdate(item, override) == [item EXCEPT !.config.width = override.width]

\* ViewItem::render: the field's value formatted by the config, at the
\* config's width.
ItemRender(item, model) ==
  LET v == Query(model, item.field_id)
      text == IF v = <<>> THEN <<"?">> ELSE Decimal(v[1]) \o item.config.suffix
  IN get_fixed_width(text, item.config.width)

\* ------------------------------------------------------------- row builder
\* render_row: the label, then for each item its title and its value at
\* ROW_FIELD_WIDTH, in the order the items come.
RECURSIVE render_row_items(_, _, _)
render_row_items(row, model, items) ==
  IF items = <<>> THEN row
  ELSE LET item == Head(items)
           title == item.config.title
       IN render_row_items(
            row \o << get_fixed_width(title, ROW_FIELD_NAME_WIDTH),
                      ItemRender(ItemUpdate(item, WidthOverride(ROW_FIELD_WIDTH)), model) >>,
            model, Tail(items))

\* Faulty variant: the label is cut to the width of a field name.
render_row_narrow_label(name, model, items) ==
  render_row_items(<<get_fixed_width(name, ROW_FIELD_NAME_WIDTH)>>, model, items)

render_row(name, model, items) ==
  render_row_items(<<get_fixed_width(name, ROW_NAME_WIDTH)>>, model, items)

\* render_models_row: the label, then for each (name, model) pair the name
\* and the one item's value at ROW_FIELD_WIDTH, in the order the pairs come.
RECURSIVE render_models_row_pairs(_, _, _)
render_models_row_pairs(row, models, item) ==
  IF models = <<>> THEN row
  ELSE LET name == Head(models)[1]
           model == Head(models)[2]
       IN render_models_row_pairs(
            row \o << get_fixed_width(name, ROW_FIELD_NAME_WIDTH), ItemRender(item, model) >>,
            Tail(models), item)

\* Faulty variant: the pairs are taken from the last to the first.
render_models_row_reversed(name, models, item) ==
  render_models_row_pairs(<<get_fixed_width(name, ROW_NAME_WIDTH)>>,
                          [i \in 1..Len(models) |-> models[Len(models) + 1 - i]],
                          ItemUpdate(item, WidthOverride(ROW_FIELD_WIDTH)))

render_models_row(name, models, item) ==
  render_models_row_pairs(<<get_fixed_width(name, ROW_NAME_WIDTH)>>, models,
                          ItemUpdate(item, WidthOverride(ROW_FIELD_WIDTH)))

\* BTreeMap::iter: the entries of a map in ascending key order.
RECURSIVE BTreeIter(_)
BTreeIter(map) ==
  IF DOMAIN map = {} THEN <<>>
  ELSE LET first == CHOOSE k \in DOMAIN map : \A o \in DOMAIN map \ {k} : StrLess(k, o)
       IN <<<<first, map[first]>>>> \o BTreeIter([k \in DOMAIN map \ {first} |-> map[k]])

\* Faulty variant: a disk without a minor number passes for minor zero.
MinorIsZeroOrUnset(pair) == pair[2].minor \in {<<0>>, <<>>}

\* |(_, sdm)| sdm.minor == Some(0)
MinorIsZero(pair) == pair[2].minor = <<0>>

\* disks.iter().filter(..): the pairs the closure keeps, in their order.
RECURSIVE FilterMinorZero(_)
FilterMinorZero(pairs) ==
  IF pairs = <<>> THEN <<>>
  ELSE (IF MinorIsZero(Head(pairs)) THEN <<Head(pairs)>> ELSE <<>>)
       \o FilterMinorZero(Tail(pairs))

\* Faulty variant: the CPU table lists user before usage.
SYS_CPU_ITEMS_user_first ==
  << from_default(<<"Cpu", "UserPct">>), from_default(<<"Cpu", "UsagePct">>),
     from_default(<<"Cpu", "SystemPct">>) >>

\* The initialisers of the statics SYS_CPU_ITEMS, SYS_MEM_ITEMS, SYS_VM_ITEMS.
SYS_CPU_ITEMS == [i \in 1..Len(CpuFieldIds) |-> from_default(CpuFieldIds[i])]
SYS_MEM_ITEMS == [i \in 1..Len(MemFieldIds) |-> from_default(MemFieldIds[i])]
SYS_VM_ITEMS == [i \in 1..Len(VmFieldIds) |-> from_default(VmFieldIds[i])]

\* The rows take their items as clones of the tables (iter().cloned()).
render_cpu_row(model, table) == render_row(<<"C","P","U">>, model, table)
render_mem_row(model, table) == render_row(<<"M","e","m">>, model, table)
render_vm_row(model, table) == render_row(<<"V","M">>, model, table)

render_io_row(disks) ==
  render_models_row(<<"I","/","O">>, FilterMinorZero(BTreeIter(disks)),
                    from_default(DiskTotalBytesPerSec))

render_iface_row(ifaces) ==
  render_models_row(<<"I","f","a","c","e">>, BTreeIter(ifaces),
                    from_default(ThroughputPerSec))

\* ------------------------------------------------------------------- state
VARIABLES
  user_data,   \* Cursive's user data holds a ViewState
  system,      \* ViewState.system: the SystemModel in the RefCell
  network,     \* ViewState.network: the NetworkModel in the RefCell
  readers,     \* shared borrows outstanding on each RefCell
  writer,      \* the RefCell the polling side holds mutably, or "none"
  writes,      \* modifications made to the snapshot so far
  statics,     \* the tables SYS_CPU_ITEMS, SYS_MEM_ITEMS, SYS_VM_ITEMS
  tree,        \* the view registered as "system_view": <<>> or <<view>>
  held,        \* the named view new() returned, not yet registered
  pc,          \* position of the call in progress
  op,          \* the call in progress: "new", "refresh" or "none"
  new_view,    \* new(): the local view
  rows,        \* fill_content: the five rendered rows
  fill_view,   \* fill_content: the local view
  outcome      \* the last call that ended, and "ok" or its panic message

vars ==
  << user_data, system, network, readers, writer, writes, statics, tree, held,
     pc, op, new_view, rows, fill_view, outcome >>

\* A LinearLayout: its children, each a TextView's content, and the number
\* of snapshot modifications that preceded its last fill.
LinearLayout(children, stamp) == [children |-> children, stamp |-> stamp]

None == <<>>
Some(x) == <<x>>

\* The values of one sample of the collector: sample 0 is "not collected".
Value(k, i) == IF k = 0 THEN None ELSE Some(55 * (100 ^ (k - 1)) + i)

SystemSample(k, disks) ==
  [ Cpu |-> [UsagePct |-> Value(k, 0), UserPct |-> Value(k, 1), SystemPct |-> Value(k, 2)],
    Mem |-> [Total |-> Value(k, 3), Free |-> Value(k, 4), Anon |-> Value(k, 5),
             File |-> Value(k, 6)],
    Vm |-> [PgpginPerSec |-> Value(k, 7), PgpgoutPerSec |-> Value(k, 8),
            PswpinPerSec |-> Value(k, 9), PswpoutPerSec |-> Value(k, 10)],
    disks |-> disks ]

SingleDiskModel(minor, k) == [minor |-> minor, DiskTotalBytesPerSec |-> Value(k, 0)]
SingleNetModel(k) == [ThroughputPerSec |-> Value(k, 0)]

sda == <<"s","d","a">>
sda1 == <<"s","d","a","1">>
sdb == <<"s","d","b">>
nvme == <<"n","v","m","e","0","n","1","p","1","0">>
DiskNames == {sdb, nvme}
Minors == {None, Some(0), Some(1)}
IfaceNames == { <<"l","o">>, <<"e","t","h","0">> }

EmptyMap == <<>>
Insert(map, key, value) ==
  [k \in DOMAIN map \cup {key} |-> IF k = key THEN value ELSE map[k]]

\* The disks of section 8's filtering scenario.
ScenarioDisks ==
  Insert(Insert(Insert(EmptyMap, sdb, SingleDiskModel(Some(0), 1)),
                sda1, SingleDiskModel(Some(1), 1)),
         sda, SingleDiskModel(Some(0), 1))

Init ==
  /\ user_data = FALSE
  /\ system \in {SystemSample(0, EmptyMap), SystemSample(1, ScenarioDisks)}
  /\ network = [interfaces |-> EmptyMap]
  /\ readers = [system |-> 0, network |-> 0]
  /\ writer = "none"
  /\ writes = 0
  /\ statics = [cpu |-> SYS_CPU_ITEMS, mem |-> SYS_MEM_ITEMS, vm |-> SYS_VM_ITEMS]
  /\ tree = None
  /\ held = None
  /\ pc = "idle"
  /\ op = "none"
  /\ new_view = None
  /\ rows = None
  /\ fill_view = None
  /\ outcome = [call |-> "none", result |-> "none"]

\* --------------------------------------------------- the hosting application
\* siv.set_user_data(view_state)
SetUserData ==
  /\ pc = "idle" /\ ~user_data
  /\ user_data' = TRUE
  /\ UNCHANGED << system, network, readers, writer, writes, statics, tree, held,
                  pc, op, new_view, rows, fill_view, outcome >>

\* The caller of new() adds the named view to the view tree.
Register ==
  /\ pc = "idle" /\ held # None
  /\ tree' = held
  /\ held' = None
  /\ UNCHANGED << user_data, system, network, readers, writer, writes, statics,
                  pc, op, new_view, rows, fill_view, outcome >>

\* The polling side takes a RefCell mutably (borrow_mut): possible only
\* while nothing else borrows it.
WriterAcquire ==
  /\ pc = "idle" /\ writer = "none"
  /\ \E cell \in {"system", "network"} :
       /\ readers[cell] = 0
       /\ writer' = cell
  /\ UNCHANGED << user_data, system, network, readers, writes, statics, tree, held,
                  pc, op, new_view, rows, fill_view, outcome >>

WriterRelease ==
  /\ pc = "idle" /\ writer # "none"
  /\ writer' = "none"
  /\ UNCHANGED << user_data, system, network, readers, writes, statics, tree, held,
                  pc, op, new_view, rows, fill_view, outcome >>

\* The polling side stores a new sample of the system counters.
WriteSystem ==
  /\ pc = "idle" /\ writer = "system" /\ writes < MaxWrites
  /\ \E k \in 1..MaxSample : system' = SystemSample(k, system.disks)
  /\ writes' = writes + 1
  /\ UNCHANGED << user_data, network, readers, writer, statics, tree, held,
                  pc, op, new_view, rows, fill_view, outcome >>

\* The polling side inserts (or overwrites) a disk.
WriteDisk ==
  /\ pc = "idle" /\ writer = "system" /\ writes < MaxWrites
  /\ \E name \in DiskNames, minor \in Minors :
       system' = [system EXCEPT !.disks = Insert(@, name, SingleDiskModel(minor, 1))]
  /\ writes' = writes + 1
  /\ UNCHANGED << user_data, network, readers, writer, statics, tree, held,
                  pc, op, new_view, rows, fill_view, outcome >>

\* The polling side inserts (or overwrites) an interface.
WriteIface ==
  /\ pc = "idle" /\ writer = "network" /\ writes < MaxWrites
  /\ \E name \in IfaceNames, k \in 1..MaxSample :
       network' = [network EXCEPT !.interfaces = Insert(@, name, SingleNetModel(k))]
  /\ writes' = writes + 1
  /\ UNCHANGED << user_data, system, readers, writer, statics, tree, held,
                  pc, op, new_view, rows, fill_view, outcome >>

\* ---------------------------------------------------------------- the view
\* The RefCells on which the call holds a Ref guard at each position.
Guards(at) ==
  CASE at = "borrow_network" -> {"system"}
    [] at \in {"render", "build", "assign", "return"} -> {"system", "network"}
    [] OTHER -> {}

\* Dropping the guards, at the end of their scope or while a panic unwinds.
DropGuards(held_at) ==
  [cell \in {"system", "network"} |->
     IF cell \in Guards(held_at) THEN readers[cell] - 1 ELSE readers[cell]]

\* A panic: the call's frames unwind, its locals and guards are dropped.
Panic(call, message) ==
  /\ outcome' = [call |-> call, result |-> message]
  /\ readers' = DropGuards(pc)
  /\ pc' = "idle"
  /\ op' = "none"
  /\ new_view' = None
  /\ rows' = None
  /\ fill_view' = None
  /\ UNCHANGED << user_data, system, network, writer, writes, statics, tree, held >>

\* new(): let mut view = LinearLayout::vertical(); fill_content(c, &mut view).
\* The host creates the view once, when the dashboard is first built.
NewCall ==
  /\ pc = "idle" /\ tree = None /\ held = None
  /\ op' = "new"
  /\ new_view' = Some(LinearLayout(<<>>, writes))
  /\ pc' = "user_data"
  /\ UNCHANGED << user_data, system, network, readers, writer, writes, statics,
                  tree, held, rows, fill_view, outcome >>

\* refresh(): find_name("system_view") finds the registered view.
RefreshCall ==
  /\ pc = "idle" /\ tree # None
  /\ op' = "refresh"
  /\ pc' = "user_data"
  /\ UNCHANGED << user_data, system, network, readers, writer, writes, statics,
                  tree, held, new_view, rows, fill_view, outcome >>

\* Faulty variant: a missing view is passed over and refresh() returns.
RefreshViewNotFoundIgnored ==
  /\ pc = "idle" /\ tree = None
  /\ outcome' = [call |-> "refresh", result |-> "ok"]
  /\ UNCHANGED << user_data, system, network, readers, writer, writes, statics,
                  tree, held, pc, op, new_view, rows, fill_view >>

\* refresh(): find_name finds nothing and expect() panics.
RefreshViewNotFound ==
  /\ pc = "idle" /\ tree = None
  /\ Panic("refresh", "No system_view view found!")

\* fill_content: user_data::<ViewState>() is present.
GetUserData ==
  /\ pc = "user_data" /\ user_data
  /\ pc' = "borrow_system"
  /\ UNCHANGED << user_data, system, network, readers, writer, writes, statics,
                  tree, held, op, new_view, rows, fill_view, outcome >>

\* fill_content: no user data is stored and expect() panics.
UserDataMissing ==
  /\ pc = "user_data" /\ ~user_data
  /\ Panic(op, "No data stored in Cursive object!")

\* fill_content: view_state.system.borrow()
BorrowSystem ==
  /\ pc = "borrow_system" /\ writer # "system"
  /\ readers' = [readers EXCEPT !.system = @ + 1]
  /\ pc' = "borrow_network"
  /\ UNCHANGED << user_data, system, network, writer, writes, statics,
                  tree, held, op, new_view, rows, fill_view, outcome >>

\* fill_content: system is mutably borrowed and borrow() panics.
BorrowSystemFails ==
  /\ pc = "borrow_system" /\ writer = "system"
  /\ Panic(op, "already mutably borrowed")

\* fill_content: view_state.network.borrow()
BorrowNetwork ==
  /\ pc = "borrow_network" /\ writer # "network"
  /\ readers' = [readers EXCEPT !.network = @ + 1]
  /\ pc' = "render"
  /\ UNCHANGED << user_data, system, network, writer, writes, statics,
                  tree, held, op, new_view, rows, fill_view, outcome >>

\* Faulty variant: the panic leaves the guard on system in place.
BorrowNetworkFailsKeepingGuard ==
  /\ pc = "borrow_network" /\ writer = "network"
  /\ outcome' = [call |-> op, result |-> "already mutably borrowed"]
  /\ pc' = "idle"
  /\ op' = "none"
  /\ new_view' = None
  /\ rows' = None
  /\ fill_view' = None
  /\ UNCHANGED << user_data, system, network, readers, writer, writes, statics, tree, held >>

\* fill_content: network is mutably borrowed and borrow() panics; the guard
\* on system is dropped by the unwinding.
BorrowNetworkFails ==
  /\ pc = "borrow_network" /\ writer = "network"
  /\ Panic(op, "already mutably borrowed")

\* Faulty variant: the width override is written back into the item tables.
RenderRowsUpdatingTables ==
  /\ pc = "render"
  /\ rows' = Some([ cpu_row |-> render_cpu_row(system, statics.cpu),
                    mem_row |-> render_mem_row(system, statics.mem),
                    vm_row |-> render_vm_row(system, statics.vm),
                    io_row |-> render_io_row(system.disks),
                    iface_row |-> render_iface_row(network.interfaces) ])
  /\ statics' = [t \in DOMAIN statics |->
                  [i \in 1..Len(statics[t]) |->
                     ItemUpdate(statics[t][i], WidthOverride(ROW_FIELD_WIDTH))]]
  /\ pc' = "build"
  /\ UNCHANGED << user_data, system, network, readers, writer, writes,
                  tree, held, op, new_view, fill_view, outcome >>

\* fill_content: the five rows are rendered from the borrowed models.
RenderRows ==
  /\ pc = "render"
  /\ rows' = Some([ cpu_row |-> render_cpu_row(system, statics.cpu),
                    mem_row |-> render_mem_row(system, statics.mem),
                    vm_row |-> render_vm_row(system, statics.vm),
                    io_row |-> render_io_row(system.disks),
                    iface_row |-> render_iface_row(network.interfaces) ])
  /\ pc' = "build"
  /\ UNCHANGED << user_data, system, network, readers, writer, writes, statics,
                  tree, held, op, new_view, fill_view, outcome >>

\* LinearLayout::add_child
add_child(layout, child) == [layout EXCEPT !.children = Append(@, child)]

\* Faulty variant: the memory row is added before the CPU row.
BuildViewMemFirst ==
  /\ pc = "build"
  /\ LET r == rows[1]
     IN fill_view' = Some(LinearLayout(<< r.mem_row, r.cpu_row, r.vm_row, r.io_row,
                                          r.iface_row >>, writes))
  /\ pc' = "assign"
  /\ UNCHANGED << user_data, system, network, readers, writer, writes, statics,
                  tree, held, op, new_view, rows, outcome >>

\* Faulty variant: the rows are added to the target view itself, one after the
\* other, instead of to a fresh list.
BuildViewInPlace ==
  /\ pc = "build"
  /\ LET r == rows[1]
         target == IF op = "new" THEN new_view[1] ELSE tree[1]
         filled == [target EXCEPT !.children = @ \o << r.cpu_row, r.mem_row, r.vm_row,
                                                        r.io_row, r.iface_row >>,
                                  !.stamp = writes]
     IN /\ fill_view' = Some(filled)
        /\ IF op = "new"
           THEN new_view' = Some(filled) /\ UNCHANGED tree
           ELSE tree' = Some(filled) /\ UNCHANGED new_view
  /\ pc' = "assign"
  /\ UNCHANGED << user_data, system, network, readers, writer, writes, statics,
                  held, op, rows, outcome >>

\* fill_content: a fresh vertical list takes the five rows as children.
BuildView ==
  /\ pc = "build"
  /\ LET r == rows[1]
         view0 == LinearLayout(<<>>, writes)
         view1 == add_child(view0, r.cpu_row)
         view2 == add_child(view1, r.mem_row)
         view3 == add_child(view2, r.vm_row)
         view4 == add_child(view3, r.io_row)
         view5 == add_child(view4, r.iface_row)
     IN fill_view' = Some(view5)
  /\ pc' = "assign"
  /\ UNCHANGED << user_data, system, network, readers, writer, writes, statics,
                  tree, held, op, new_view, rows, outcome >>

\* Faulty variant: the fresh rows are appended to the rows the target already has.
AssignAppending ==
  /\ pc = "assign"
  /\ IF op = "new"
     THEN new_view' = fill_view /\ UNCHANGED tree
     ELSE /\ tree' = Some([fill_view[1] EXCEPT
                             !.children = tree[1].children \o fill_view[1].children])
          /\ UNCHANGED new_view
  /\ fill_view' = None
  /\ pc' = "return"
  /\ UNCHANGED << user_data, system, network, readers, writer, writes, statics,
                  held, op, rows, outcome >>

\* fill_content: *v = view
Assign ==
  /\ pc = "assign"
  /\ IF op = "new"
     THEN new_view' = fill_view /\ UNCHANGED tree
     ELSE tree' = fill_view /\ UNCHANGED new_view
  /\ fill_view' = None
  /\ pc' = "return"
  /\ UNCHANGED << user_data, system, network, readers, writer, writes, statics,
                  held, op, rows, outcome >>

\* fill_content returns and its guards go out of scope; new() names its
\* view "system_view" and returns it, refresh() returns.
Return ==
  /\ pc = "return"
  /\ readers' = DropGuards(pc)
  /\ held' = IF op = "new" THEN new_view ELSE held
  /\ new_view' = None
  /\ rows' = None
  /\ outcome' = [call |-> op, result |-> "ok"]
  /\ pc' = "idle"
  /\ op' = "none"
  /\ UNCHANGED << user_data, system, network, writer, writes, statics, tree, fill_view >>

Next ==
  \/ SetUserData \/ Register
  \/ WriterAcquire \/ WriterRelease \/ WriteSystem \/ WriteDisk \/ WriteIface
  \/ NewCall \/ RefreshCall \/ RefreshViewNotFound
  \/ GetUserData \/ UserDataMissing
  \/ BorrowSystem \/ BorrowSystemFails
  \/ BorrowNetwork \/ BorrowNetworkFails
  \/ RenderRows \/ BuildView \/ Assign \/ Return

Spec == Init /\ [][Next]_vars

\* ================================================================== claims
NotFound == "No system_view view found!"
NoUserData == "No data stored in Cursive object!"
Borrowed == "already mutably borrowed"

\* A step with which a refresh() call ends, by returning or by a panic.
RefreshEnds ==
  /\ outcome'.call = "refresh"
  /\ pc' = "idle"
  /\ (pc # "idle" \/ outcome' # outcome)

\* A step the view code takes (as opposed to the host or the polling side).
ViewStep == pc # "idle" \/ pc' # "idle" \/ outcome' # outcome

\* The rows rendered by the call in progress, in the order they are shown.
RenderedRows ==
  << rows[1].cpu_row, rows[1].mem_row, rows[1].vm_row, rows[1].io_row, rows[1].iface_row >>

\* A text without its trailing padding.
RECURSIVE TrimEnd(_)
TrimEnd(text) ==
  IF text # <<>> /\ text[Len(text)] = " " THEN TrimEnd(SubSeq(text, 1, Len(text) - 1))
  ELSE text

\* The first n characters of a text (all of it when it is shorter).
Cut(text, n) == IF Len(text) > n THEN SubSeq(text, 1, n) ELSE text

\* Number of (name, value) segments of a row.
Segments(row) == (Len(row) - 1) \div 2

\* Position of a key among a set of keys in ascending lexicographic order.
Rank(key, keys) == 1 + Cardinality({o \in keys : StrLess(o, key)})

ZeroMinorDisks == {d \in DOMAIN system.disks : system.disks[d].minor = Some(0)}

\* C1 as stated: a refresh ends well exactly when a view is registered under
\* "system_view" (with a view registered it always completes).
C1_SucceedsExactlyWhenRegistered ==
  [][RefreshEnds => (outcome'.result = "ok" <=> tree # None)]_vars

\* C1 amended: a refresh with no view registered panics with "No system_view
\* view found!" and changes nothing; with a view registered it finds the view,
\* and completes exactly when the user data is stored and neither snapshot cell
\* is mutably borrowed, panicking otherwise.
C1_LookupExactlyWhenRegistered ==
  [][RefreshEnds =>
       /\ (outcome'.result = NotFound <=> tree = None)
       /\ (tree = None => UNCHANGED << tree, held, system, network, statics, readers >>)
       /\ (tree # None => (outcome'.result = "ok" <=> (user_data /\ writer = "none")))
       /\ outcome'.result \in {"ok", NotFound, NoUserData, Borrowed}]_vars

C1_Witness ==
  /\ pc = "idle" /\ tree # None
  /\ outcome = [call |-> "refresh", result |-> "ok"]

\* C2: while the snapshot has not been modified since the registered view was
\* last filled (by new() or by a refresh), no step changes its rows: a refresh
\* leaves them as they were.
C2_RefreshIdempotent ==
  [][(tree # None /\ tree[1].stamp = writes) =>
       (tree' # None /\ tree'[1].children = tree[1].children)]_vars

C2_Witness ==
  /\ pc = "return" /\ op = "refresh"
  /\ outcome = [call |-> "refresh", result |-> "ok"]
  /\ tree[1].stamp = writes /\ writes > 0
  /\ DOMAIN network.interfaces # {}

\* C3: the view new() returned and the view registered always hold exactly
\* five rows, labelled CPU, Mem, VM, I/O, Iface in that order.
FiveRows(view) ==
  /\ Len(view.children) = 5
  /\ TrimEnd(view.children[1][1]) = <<"C","P","U">>
  /\ TrimEnd(view.children[2][1]) = <<"M","e","m">>
  /\ TrimEnd(view.children[3][1]) = <<"V","M">>
  /\ TrimEnd(view.children[4][1]) = <<"I","/","O">>
  /\ TrimEnd(view.children[5][1]) = <<"I","f","a","c","e">>

C3_AlwaysFiveRows ==
  /\ (held # None => FiveRows(held[1]))
  /\ (tree # None => FiveRows(tree[1]))

C3_Witness ==
  /\ pc = "idle" /\ tree # None /\ tree[1].stamp = MaxWrites
  /\ outcome = [call |-> "refresh", result |-> "ok"]

\* C4: the I/O row has one segment for each disk whose minor is Some(0) and no
\* other segment; with no such disk it is the label alone.
C4_IoRowZeroMinorOnly ==
  rows # None =>
    LET row == rows[1].io_row
    IN /\ Len(row) = 1 + 2 * Cardinality(ZeroMinorDisks)
       /\ \A d \in ZeroMinorDisks :
            \E i \in 1..Segments(row) : TrimEnd(row[2 * i]) = Cut(d, ROW_FIELD_NAME_WIDTH)
       /\ \A i \in 1..Segments(row) :
            \E d \in ZeroMinorDisks : TrimEnd(row[2 * i]) = Cut(d, ROW_FIELD_NAME_WIDTH)
       /\ (ZeroMinorDisks = {} => row = <<get_fixed_width(<<"I","/","O">>, ROW_NAME_WIDTH)>>)

C4_Witness ==
  /\ rows # None
  /\ \E a, b, c \in DOMAIN system.disks :
       /\ system.disks[a].minor = Some(0)
       /\ system.disks[b].minor = Some(1)
       /\ system.disks[c].minor = None

\* C5: in the I/O row and in the interface row the i-th segment names the
\* i-th smallest entity name; every interface has a segment.
EntitiesAscending(row, keys) ==
  /\ Len(row) = 1 + 2 * Cardinality(keys)
  /\ \A k \in keys : TrimEnd(row[2 * Rank(k, keys)]) = Cut(k, ROW_FIELD_NAME_WIDTH)

C5_EntitiesInNameOrder ==
  rows # None =>
    /\ EntitiesAscending(rows[1].io_row, ZeroMinorDisks)
    /\ EntitiesAscending(rows[1].iface_row, DOMAIN network.interfaces)

C5_Witness ==
  /\ rows # None
  /\ Cardinality(DOMAIN network.interfaces) = 2
  /\ Cardinality(ZeroMinorDisks) >= 2

\* C6: no step of new() or refresh() changes the snapshot, the item tables,
\* the user data or what the polling side holds.
C6_OnlyTheViewChanges ==
  [][ViewStep => UNCHANGED << system, network, statics, user_data, writer, writes >>]_vars

C6_Witness ==
  /\ pc = "build" /\ op = "refresh"
  /\ system.Cpu.UsagePct # None

\* C7: between calls the view code holds no borrow of either snapshot cell,
\* whether the last call returned or panicked, so the polling side can take
\* any cell it does not hold already.
C7_NoBorrowOutlivesCall ==
  pc = "idle" =>
    /\ readers.system = 0 /\ readers.network = 0
    /\ (writer = "none" => ENABLED WriterAcquire)

C7_Witness ==
  /\ pc = "idle" /\ writer = "network"
  /\ outcome.result = Borrowed

\* C8: every rendered row is a 15-wide label followed by pairs of a 9-wide
\* name and a 17-wide value: a row of k segments is 15 + 26 * k wide.
RowShape(row) ==
  /\ Len(row) % 2 = 1
  /\ Len(row[1]) = 15
  /\ \A i \in 1..Segments(row) : Len(row[2 * i]) = 9 /\ Len(row[2 * i + 1]) = 17
  /\ StyledWidth(row) = 15 + 26 * Segments(row)

C8_RowWidths ==
  rows # None => \A i \in 1..5 : RowShape(RenderedRows[i])

C8_Witness ==
  /\ rows # None
  /\ nvme \in ZeroMinorDisks
  /\ system.Cpu.UsagePct # None
  /\ DOMAIN network.interfaces # {}

\* C9: the CPU row is usage, user, system; the memory row is total, free,
\* anon, file; the VM row is page-in, page-out, swap-in, swap-out: one segment
\* per item, titled by the item and showing the item's field of the model.
ItemsInOrder(row, fields) ==
  /\ Len(row) = 1 + 2 * Len(fields)
  /\ \A i \in 1..Len(fields) :
       /\ row[2 * i] = get_fixed_width(DefaultConfig(fields[i]).title, ROW_FIELD_NAME_WIDTH)
       /\ row[2 * i + 1] =
            ItemRender(ItemUpdate(from_default(fields[i]), WidthOverride(ROW_FIELD_WIDTH)), system)

C9_ItemsInSuppliedOrder ==
  rows # None =>
    /\ ItemsInOrder(rows[1].cpu_row,
                    << <<"Cpu", "UsagePct">>, <<"Cpu", "UserPct">>, <<"Cpu", "SystemPct">> >>)
    /\ ItemsInOrder(rows[1].mem_row,
                    << <<"Mem", "Total">>, <<"Mem", "Free">>, <<"Mem", "Anon">>, <<"Mem", "File">> >>)
    /\ ItemsInOrder(rows[1].vm_row,
                    << <<"Vm", "PgpginPerSec">>, <<"Vm", "PgpgoutPerSec">>,
                       <<"Vm", "PswpinPerSec">>, <<"Vm", "PswpoutPerSec">> >>)

C9_Witness ==
  /\ rows # None /\ op = "refresh"
  /\ system.Cpu.UsagePct # None /\ system.Cpu.UsagePct # system.Cpu.UserPct

\* C10: a step changes the registered view only by replacing all its rows with
\* the five rows rendered from the snapshot the call has borrowed; a call that
\* panics leaves the registered view and the returned view as they were.
C10_RefreshAllOrNothing ==
  [][/\ (tree # None /\ tree' # tree) =>
          /\ pc = "assign" /\ op = "refresh"
          /\ tree' # None
          /\ tree'[1].children = RenderedRows
          /\ rows[1].cpu_row = render_cpu_row(system, statics.cpu)
          /\ rows[1].io_row = render_io_row(system.disks)
          /\ rows[1].iface_row = render_iface_row(network.interfaces)
     /\ (ViewStep /\ pc' = "idle" /\ outcome'.result # "ok") =>
          UNCHANGED << tree, held >>]_vars

C10_Witness ==
  /\ pc = "idle" /\ tree # None
  /\ outcome = [call |-> "refresh", result |-> Borrowed]
  /\ tree[1].stamp < writes

====
